---- MODULE Spec2Model ----
(***************************************************************************)
(* Model of Vector_Database_Setup.ipynb (MtG card classifier):             *)
(*   - batch_upsert_embeddings : the batched ingestion loop that embeds    *)
(*     every file of a directory and upserts the vectors into the index;   *)
(*   - add_card_data_to_csv    : the read-modify-write of the CSV catalog. *)
(* Line numbers in comments are lines of src/Vector_Database_Setup.ipynb.  *)
(***************************************************************************)
EXTENDS Integers, Sequences, FiniteSets, TLC

(***************************************************************************)
(* Bounds of the model.                                                    *)
(***************************************************************************)
MaxEntries == 4        \* files in the ingested directory
MaxBatchSize == 3      \* batch_size argument ranges over 1..MaxBatchSize
MaxReconciles == 4     \* calls of add_card_data_to_csv in one behaviour
MaxSide == 13          \* image height and width range over 1..MaxSide
MaxTarget == 15        \* target_size ranges over 1..MaxTarget
MaxStem == 3           \* characters of a file name before its extension
MaxConcurrentCalls == 3  \* calls of add_card_data_to_csv by the concurrent callers
MaxRuns == 2             \* runs of batch_upsert_embeddings over one directory
MaxReingestEntries == 2  \* files of a directory that is ingested more than once

VARIABLES
    entries,      \* os.listdir(image_dir): the listing, in listing order
    batch_size,   \* the batch_size argument
    pos,          \* 1-based position of the for loop in the listing
    batch,        \* the local list `batch`
    calls,        \* index.upsert calls issued so far, with their outcome
    errors,       \* lines printed by the except clause (l.106)
    pc,           \* "loop" | "done" (returned) | "raised" (exception left the function)
    file,         \* the CSV catalog at file_path
    log,          \* calls of add_card_data_to_csv made so far, with their outcome
    runs,         \* completed runs of batch_upsert_embeddings over the directory
    procs,        \* callers that are inside add_card_data_to_csv, with their locals
    arg,          \* argument of the function under call (resize_with_padding, get_card_id)
    ret           \* its result, NotCalled before the call

ingestVars == <<entries, batch_size, pos, batch, calls, errors, pc>>
ledgerVars == <<file, log>>
callVars == <<arg, ret>>
vars == <<entries, batch_size, pos, batch, calls, errors, pc, file, log, runs, procs, arg, ret>>

(***************************************************************************)
(* Generic helpers.                                                        *)
(***************************************************************************)
Range(s) == {s[i] : i \in 1..Len(s)}

Last(s) == s[Len(s)]

\* dict.get(key, default)
Get(d, k, default) == IF k \in DOMAIN d THEN d[k] ELSE default

(***************************************************************************)
(* batch_upsert_embeddings (l.91-111).                                     *)
(* A file of the directory is named by its index in the listing; the       *)
(* listing holds each file name once.                                      *)
(***************************************************************************)

\* Outcomes of embed_image (l.86-89): cv2.imread gives None for an unreadable
\* file and img.shape then raises (l.67); base_model.predict may raise.
EmbedOutcomes == {"ok", "decode_error", "embed_error"}

\* An id that is fresh in every run instead of the file name.
Item_fresh(img_name) == [id |-> img_name + Len(runs) * (MaxEntries + 1), values |-> img_name]

\* l.99: {"id": img_name, "values": embedding.tolist()}; the embedding is a
\* deterministic function of the file.
Item(img_name) == [id |-> img_name, values |-> img_name]

\* l.101: if len(batch) >= batch_size
ShouldFlush_gt(b, size) == Len(b) > size

ShouldFlush(b, size) == Len(b) >= size

\* l.102-106: batch.clear() (l.104) runs only when index.upsert returned; when
\* it raised, control jumps to the except clause and the list keeps its items.
BatchAfterUpsert(b, upsert_ok) == IF upsert_ok THEN <<>> ELSE b

\* l.105-106: `except Exception` prints and the for loop goes on.
PcAfterEmbedError_abort == "raised"

PcAfterEmbedError == "loop"

\* l.97-99 after a failed embed_image: nothing is appended.
BatchAfterEmbedError(b, img_name) == b

InitIngestVars ==
    /\ \E n \in 0..MaxEntries : entries = [i \in 1..n |-> i]
    /\ batch_size \in 1..MaxBatchSize
    /\ pos = 1
    /\ batch = <<>>
    /\ calls = <<>>
    /\ errors = <<>>
    /\ pc = "loop"

\* One iteration of the for loop whose embed_image call raises (l.93-97, 105-106).
EmbedFails ==
    /\ pc = "loop"
    /\ pos <= Len(entries)
    /\ \E outcome \in EmbedOutcomes \ {"ok"} :
          errors' = Append(errors, [name |-> entries[pos], cause |-> outcome])
    /\ batch' = BatchAfterEmbedError(batch, entries[pos])
    /\ pc' = PcAfterEmbedError
    /\ pos' = pos + 1
    /\ UNCHANGED <<entries, batch_size, calls>>
    /\ UNCHANGED <<ledgerVars, runs, procs, callVars>>

\* One iteration whose embedding succeeds and that does not reach batch_size
\* (l.93-101).
EmbedAppends ==
    /\ pc = "loop"
    /\ pos <= Len(entries)
    /\ LET b1 == Append(batch, Item(entries[pos])) IN
          /\ ~ShouldFlush(b1, batch_size)
          /\ batch' = b1
    /\ pos' = pos + 1
    /\ UNCHANGED <<entries, batch_size, calls, errors, pc>>
    /\ UNCHANGED <<ledgerVars, runs, procs, callVars>>

\* One iteration whose embedding succeeds and that upserts the batch
\* (l.93-106); index.upsert may raise, inside the try block.
EmbedFlushes ==
    /\ pc = "loop"
    /\ pos <= Len(entries)
    /\ LET b1 == Append(batch, Item(entries[pos])) IN
          /\ ShouldFlush(b1, batch_size)
          /\ \E upsert_ok \in BOOLEAN :
                /\ calls' = Append(calls, [vectors |-> b1, ok |-> upsert_ok])
                /\ batch' = BatchAfterUpsert(b1, upsert_ok)
                /\ errors' = IF upsert_ok THEN errors
                             ELSE Append(errors, [name |-> entries[pos], cause |-> "upsert_error"])
    /\ pos' = pos + 1
    /\ UNCHANGED <<entries, batch_size, pc>>
    /\ UNCHANGED <<ledgerVars, runs, procs, callVars>>

\* l.109-111: the final upsert, outside any try block.
FinalUpsert ==
    /\ pc = "loop"
    /\ pos > Len(entries)
    /\ batch # <<>>
    /\ \E upsert_ok \in BOOLEAN :
          /\ calls' = Append(calls, [vectors |-> batch, ok |-> upsert_ok])
          /\ pc' = IF upsert_ok THEN "done" ELSE "raised"
    /\ UNCHANGED <<entries, batch_size, pos, batch, errors>>
    /\ UNCHANGED <<ledgerVars, runs, procs, callVars>>

\* l.109: `if batch:` is false, the function returns.
ReturnNoFinal ==
    /\ pc = "loop"
    /\ pos > Len(entries)
    /\ batch = <<>>
    /\ pc' = "done"
    /\ UNCHANGED <<entries, batch_size, pos, batch, calls, errors>>
    /\ UNCHANGED <<ledgerVars, runs, procs, callVars>>

InitIngest ==
    /\ InitIngestVars
    /\ file = [exists |-> FALSE, rows |-> <<>>]
    /\ log = <<>>
    /\ runs = <<>>
    /\ procs = <<>>
    /\ arg = <<>>
    /\ ret = <<>>

NextIngest ==
    \/ EmbedFails
    \/ EmbedAppends
    \/ EmbedFlushes
    \/ FinalUpsert
    \/ ReturnNoFinal

SpecIngest == InitIngest /\ [][NextIngest]_vars

(***************************************************************************)
(* Observations of an ingestion run.                                       *)
(***************************************************************************)
Terminated == pc \in {"done", "raised"}

\* Entries whose embed_image call raised.
EmbedFailed == {e.name : e \in {x \in Range(errors) : x.cause # "upsert_error"}}

\* Entries visited so far whose embedding succeeded, in listing order.
Embedded == SelectSeq(SubSeq(entries, 1, pos - 1), LAMBDA n : n \notin EmbedFailed)

\* Calls of index.upsert that carry the entry.
CallsWith(n) == {i \in 1..Len(calls) : \E k \in 1..Len(calls[i].vectors) : calls[i].vectors[k].id = n}

NoUpsertFailed == \A i \in 1..Len(calls) : calls[i].ok

CeilDiv(a, b) == (a + b - 1) \div b

(***************************************************************************)
(* Claims about batch_upsert_embeddings, checked under SpecIngest.         *)
(***************************************************************************)

\* C1: once the run has ended, every successfully embedded item is contained
\* in exactly one upsert call issued to the index (never zero, never two or
\* more), also in runs where embed calls or upsert calls fail.
C1_ExactlyOneUpsertPerItem ==
    Terminated => \A n \in Range(Embedded) : Cardinality(CallsWith(n)) = 1

\* C2: with N successfully embedded items, batch size B >= 1 and no failing
\* upsert, the run issues exactly ceil(N/B) upsert calls; every call but the
\* last carries B items, the last carries N mod B items (B when N is a
\* positive multiple of B); no call for N = 0.
C2_BatchCountAndSizes ==
    (pc = "done" /\ NoUpsertFailed) =>
        LET N == Len(Embedded)
            B == batch_size
        IN  /\ Len(calls) = CeilDiv(N, B)
            /\ \A i \in 1..(Len(calls) - 1) : Len(calls[i].vectors) = B
            /\ (N = 0 => calls = <<>>)
            /\ (N > 0 => Len(Last(calls).vectors) = (IF N % B = 0 THEN B ELSE N % B))

\* A run with a failed entry, two calls and a partial last batch has returned.
C2_Witness ==
    /\ pc = "done"
    /\ NoUpsertFailed
    /\ EmbedFailed # {}
    /\ Len(calls) >= 2
    /\ Len(Embedded) % batch_size # 0

\* C3: a decode or embedding failure of one entry never aborts the run: the
\* failed entry is in no upsert call, the only way the function raises is the
\* final upsert after every entry was visited, every entry that embedded is in
\* an upsert call when the run ends, and in a successful one when it returns.
C3_EmbedFailureIsolated ==
    /\ \A n \in EmbedFailed : CallsWith(n) = {}
    /\ (pc = "raised" => (pos = Len(entries) + 1 /\ calls # <<>> /\ ~Last(calls).ok))
    /\ (Terminated => \A n \in Range(Embedded) : CallsWith(n) # {})
    /\ (pc = "done" => \A n \in Range(Embedded) : \E i \in CallsWith(n) : calls[i].ok)

\* A returned run in which an entry failed and entries after it were upserted.
C3_Witness ==
    /\ pc = "done"
    /\ \E i \in 1..Len(entries) : \E j \in (i + 1)..Len(entries) :
          /\ entries[i] \in EmbedFailed
          /\ \E c \in CallsWith(entries[j]) : calls[c].ok
    /\ Len(Embedded) >= 2

\* C10: a failing upsert call is terminal and surfaced to the caller (a run
\* that ended after a failed call ended by raising), and the batch of a failed
\* call is never sent to the index a second time by the same run.
C10_FailedUpsertNotResent ==
    /\ \A i \in 1..Len(calls) : \A j \in (i + 1)..Len(calls) :
          ~calls[i].ok =>
              \A k \in 1..Len(calls[i].vectors) : j \notin CallsWith(calls[i].vectors[k].id)
    /\ (Terminated /\ ~NoUpsertFailed => pc = "raised")

(***************************************************************************)
(* Python values and conversions used by add_card_data_to_csv.             *)
(* A Python str is a sequence of one-character strings; None is NoneVal.   *)
(* A float is represented by its value in hundredths: the prices of the    *)
(* model have at most two decimals and are dyadic (14.25, 0.50), so every  *)
(* product the code computes on them is exact in binary floating point.    *)
(***************************************************************************)
NoneVal == <<"None">>

EmptyStr == <<>>

EmptyDict == <<>>

Digits == <<"0", "1", "2", "3", "4", "5", "6", "7", "8", "9">>

IsDigit(c) == \E d \in 1..10 : Digits[d] = c

DigitVal(c) == (CHOOSE d \in 1..10 : Digits[d] = c) - 1

AllDigits(s) == \A i \in 1..Len(s) : IsDigit(s[i])

RECURSIVE DigitsVal(_)
DigitsVal(s) ==
    IF s = <<>> THEN 0
    ELSE 10 * DigitsVal(SubSeq(s, 1, Len(s) - 1)) + DigitVal(s[Len(s)])

\* int(s) for a str s of decimal digits (l.439)
PyInt(s) == DigitsVal(s)

\* str(n) for an int n >= 0 (csv.DictWriter, l.469)
RECURSIVE PyStrInt(_)
PyStrInt(n) ==
    IF n < 10 THEN <<Digits[n + 1]>>
    ELSE Append(PyStrInt(n \div 10), Digits[(n % 10) + 1])

DotPositions(s) == {i \in 1..Len(s) : s[i] = "."}

\* float(s) succeeds (l.440, l.459): digits with at most one ".", at least
\* one digit; float(None) raises TypeError, float('') and float('N/A')
\* raise ValueError.
PyFloatOk(s) ==
    /\ s # NoneVal
    /\ Cardinality(DotPositions(s)) <= 1
    /\ \A i \in 1..Len(s) : IsDigit(s[i]) \/ s[i] = "."
    /\ \E i \in 1..Len(s) : IsDigit(s[i])

\* float(s), in hundredths, for s with at most two decimals
PyFloat(s) ==
    IF DotPositions(s) = {} THEN 100 * DigitsVal(s)
    ELSE LET d == CHOOSE i \in DotPositions(s) : TRUE
             whole == SubSeq(s, 1, d - 1)
             frac == SubSeq(s, d + 1, Len(s))
         IN  100 * DigitsVal(whole)
             + (IF Len(frac) = 0 THEN 0
                ELSE IF Len(frac) = 1 THEN 10 * DigitsVal(frac)
                ELSE DigitsVal(SubSeq(frac, 1, 2)))

\* str(x) for a float x >= 0 given in hundredths: 2850 -> "28.5", 200 -> "2.0"
PyStrFloat(c) ==
    LET whole == c \div 100
        frac == c % 100
    IN  PyStrInt(whole) \o <<".">> \o
        (IF frac % 10 = 0 THEN <<Digits[(frac \div 10) + 1]>>
         ELSE <<Digits[(frac \div 10) + 1], Digits[(frac % 10) + 1]>>)

\* In-memory cells of a row dict: str read from the file, int and float
\* assigned at l.439-440 and l.458-459.
StrCell(s) == [t |-> "str", v |-> s]

IntCell(n) == [t |-> "int", v |-> n]

FloatCell(c) == [t |-> "float", v |-> c]

\* A list of strings (colors, color_identity) and a bool (full_art).
ListCell(l) == [t |-> "list", v |-> l]

BoolCell(b) == [t |-> "bool", v |-> b]

\* str() of a list of strings: the repr of each element, joined by ", ".
RECURSIVE PyReprItems(_)
PyReprItems(l) ==
    IF l = <<>> THEN <<>>
    ELSE <<"'">> \o Head(l) \o <<"'">>
         \o (IF Tail(l) = <<>> THEN <<>> ELSE <<",", " ">> \o PyReprItems(Tail(l)))

PyStrList(l) == <<"[">> \o PyReprItems(l) \o <<"]">>

PyStrBool(b) == IF b THEN <<"T", "r", "u", "e">> ELSE <<"F", "a", "l", "s", "e">>

\* csv.DictWriter writes str(value) of every cell (l.466-469)
PyStr(cell) ==
    CASE cell.t = "str" -> cell.v
      [] cell.t = "int" -> PyStrInt(cell.v)
      [] cell.t = "float" -> PyStrFloat(cell.v)
      [] cell.t = "list" -> PyStrList(cell.v)
      [] cell.t = "bool" -> PyStrBool(cell.v)

(***************************************************************************)
(* The metadata service (get_card_details, l.352-356).                     *)
(***************************************************************************)
CardA == <<"a", "4">>

CardB == <<"b", "7">>

CardUnknown == <<"z", "0">>

\* Identifiers the service has a record for / the caller may pass.
KnownIds == {CardA, CardB}

CardIds == KnownIds \cup {CardUnknown}

NameOf(card_id) == IF card_id = CardA THEN <<"S", "h", "u", "k", "o">> ELSE <<"O", "p", "t">>

Price1 == <<"1", "4", ".", "2", "5">>

Price2 == <<"0", ".", "5", "0">>

\* The character U+2014 (em dash), one element of a string like any other.
EmDash == "U+2014"

\* The descriptive keys of a card object. CardA is a one-faced artifact; CardB
\* is a two-faced card, whose object has no top-level mana_cost, cmc or colors.
Described(card_id) ==
    IF card_id = CardA
    THEN [mana_cost |-> <<"{", "1", "}">>,
          cmc |-> FloatCell(100),
          type_line |-> <<"A", " ", EmDash, " ", "E">>,
          colors |-> ListCell(<<>>),
          color_identity |-> ListCell(<<>>),
          set_name |-> <<"B", "O", "K">>,
          rarity |-> <<"u">>,
          full_art |-> BoolCell(FALSE)]
    ELSE [type_line |-> <<"C", EmDash, "H", "/", "C", EmDash, "W">>,
          color_identity |-> ListCell(<< <<"G">>, <<"R">> >>),
          set_name |-> <<"I", "S", "D">>,
          rarity |-> <<"r">>,
          full_art |-> BoolCell(TRUE)]

NumericPrices == {Price1, Price2}

\* Values of card_data['prices']['usd']: a numeric string, null, or a string
\* that is not a number.
UsdValues == NumericPrices \cup {NoneVal, <<"N", "/", "A">>}

\* The JSON body of a 404 answer: an error object, without 'id' and 'name'.
NotFoundResponse == [object |-> "error", code |-> "not_found", status |-> 404]

\* l.352-356: response.json() is returned whatever the HTTP status; the price
\* of a card changes from one call to the next.
get_card_details(card_id) ==
    IF card_id \in KnownIds
    THEN {[object |-> "card", id |-> card_id, name |-> NameOf(card_id),
           prices |-> [usd |-> u, usd_foil |-> NoneVal]] @@ Described(card_id)
              : u \in UsdValues}
         \cup {[object |-> "card", id |-> card_id, name |-> NameOf(card_id),
                prices |-> [usd_foil |-> NoneVal]] @@ Described(card_id),
               [object |-> "card", id |-> card_id, name |-> NameOf(card_id)]
                   @@ Described(card_id)}
    ELSE {NotFoundResponse}

(***************************************************************************)
(* add_card_data_to_csv (l.408-469).                                       *)
(***************************************************************************)
\* The columns of the catalog (fieldnames, l.465).
Fields == {"id", "name", "mana_cost", "cmc", "type_line", "colors",
           "color_identity", "set_name", "rarity", "full_art", "price",
           "number_owned", "total_value"}

\* The columns filled from the card object, other than id and price.
Descriptive == Fields \ {"id", "price", "number_owned", "total_value"}

\* The rows of the file are not read: the merge starts from an empty list.
DictReader_fresh(f) == <<>>

\* l.410-415: csv.DictReader yields every cell as a str; no file, no rows.
DictReader(f) ==
    IF f.exists
    THEN [i \in 1..Len(f.rows) |-> [k \in Fields |-> StrCell(f.rows[i][k])]]
    ELSE <<>>

\* l.464-469: the whole table is rewritten.
DictWriter(rows) ==
    [exists |-> TRUE,
     rows |-> [i \in 1..Len(rows) |-> [k \in Fields |-> PyStr(rows[i][k])]]]

\* The price lookup of l.430.
UsdOf(card_data) == Get(Get(card_data, "prices", EmptyDict), "usd", EmptyStr)

\* str.replace(old, new) for one-character old and new.
Replace_keep(s, old, new) == s

Replace(s, old, new) == [i \in 1..Len(s) |-> IF s[i] = old THEN new ELSE s[i]]

\* l.421-429: the local variables holding the descriptive values, each .get
\* with its default; type_line with its em dashes replaced (l.424).
Locals(card_data) ==
    [name |-> StrCell(Get(card_data, "name", EmptyStr)),
     mana_cost |-> StrCell(Get(card_data, "mana_cost", EmptyStr)),
     cmc |-> Get(card_data, "cmc", IntCell(0)),
     type_line |-> StrCell(Replace(Get(card_data, "type_line", EmptyStr), EmDash, "-")),
     colors |-> Get(card_data, "colors", ListCell(<<>>)),
     color_identity |-> Get(card_data, "color_identity", ListCell(<<>>)),
     set_name |-> StrCell(Get(card_data, "set_name", EmptyStr)),
     rarity |-> StrCell(Get(card_data, "rarity", EmptyStr)),
     full_art |-> Get(card_data, "full_art", BoolCell(FALSE))]

\* Every lookup with .get and a default, the price defaulting to "0".
Extract_lenient(card_data) ==
    [raised |-> "none",
     id |-> Get(card_data, "id", EmptyStr),
     locals |-> Locals(card_data),
     price |-> Get(Get(card_data, "prices", EmptyDict), "usd", <<"0">>)]

\* l.420-430: card_data['id'] and card_data['name'] raise KeyError when the
\* key is missing; the price defaults to ''.
Extract(card_data) ==
    [raised |-> IF {"id", "name"} \subseteq DOMAIN card_data THEN "none" ELSE "KeyError",
     id |-> Get(card_data, "id", EmptyStr),
     locals |-> Locals(card_data),
     price |-> UsdOf(card_data)]

\* l.437: if row['id'] == id
RowMatches_never(row, id) == FALSE

RowMatches(row, id) == row["id"] = StrCell(id)

\* Exception raised by float(price), or "none"
FloatRaises(price) ==
    IF PyFloatOk(price) THEN "none"
    ELSE IF price = NoneVal THEN "TypeError" ELSE "ValueError"

\* l.440: row['number_owned'] * float(price)
RowTotal_unit(number_owned, price) == PyFloat(price)

RowTotal(number_owned, price) == number_owned * PyFloat(price)

\* l.439: int(row['number_owned']) + 1
IncrementOwned_same(cell) == PyInt(cell.v)

IncrementOwned(cell) == PyInt(cell.v) + 1

\* l.444-459: the dict of the new row.
NewRow(ex) ==
    [k \in Fields |->
        CASE k = "id" -> StrCell(ex.id)
          [] k = "price" -> StrCell(ex.price)
          [] k = "number_owned" -> IntCell(1)
          [] k = "total_value" -> FloatCell(PyFloat(ex.price))
          [] OTHER -> ex.locals[k]]

\* l.435-461 on the rows in memory: the first matching row is updated
\* (number_owned first, then total_value, whose float(price) may raise), or a
\* new row is appended (float(price) is evaluated while the dict is built).
Merge(rows, ex) ==
    LET matches == {i \in 1..Len(rows) : RowMatches(rows[i], ex.id)} IN
    IF matches # {}
    THEN LET i == CHOOSE m \in matches : \A o \in matches : m <= o
             n == IncrementOwned(rows[i]["number_owned"])
             bumped == [rows EXCEPT ![i]["number_owned"] = IntCell(n)]
         IN  IF FloatRaises(ex.price) # "none"
             THEN [raised |-> FloatRaises(ex.price), rows |-> bumped]
             ELSE [raised |-> "none",
                   rows |-> [bumped EXCEPT ![i]["total_value"] = FloatCell(RowTotal(n, ex.price))]]
    ELSE IF FloatRaises(ex.price) # "none"
         THEN [raised |-> FloatRaises(ex.price), rows |-> rows]
         ELSE [raised |-> "none",
               rows |-> Append(rows, NewRow(ex))]

\* The file is written even when an exception was raised.
WriteBack_always(f, rows, raised) == DictWriter(rows)

\* l.464-469 is reached only when nothing raised before it.
WriteBack(f, rows, raised) == IF raised = "none" THEN DictWriter(rows) ELSE f

\* The whole function on the file f and the service's answer card_data.
add_card_data_to_csv(f, card_data) ==
    LET rows == DictReader(f)
        ex == Extract(card_data)
        m == IF ex.raised # "none" THEN [raised |-> ex.raised, rows |-> rows]
             ELSE Merge(rows, ex)
    IN  [raised |-> m.raised, file |-> WriteBack(f, m.rows, m.raised)]

\* One call add_card_data_to_csv(file_path, top_result_id) (l.408-469, l.473).
Reconcile ==
    /\ Len(log) < MaxReconciles
    /\ \E top_result_id \in CardIds :
          \E card_data \in get_card_details(top_result_id) :
              LET r == add_card_data_to_csv(file, card_data) IN
                  /\ file' = r.file
                  /\ log' = Append(log, [top_result_id |-> top_result_id,
                                         card_data |-> card_data,
                                         raised |-> r.raised])
    /\ UNCHANGED <<ingestVars, runs, procs, callVars>>

\* The catalog starts absent (l.414-415) or as a file with only the header.
InitReconcile ==
    /\ entries = <<>>
    /\ batch_size = 1
    /\ pos = 1
    /\ batch = <<>>
    /\ calls = <<>>
    /\ errors = <<>>
    /\ pc = "done"
    /\ file \in {[exists |-> FALSE, rows |-> <<>>], [exists |-> TRUE, rows |-> <<>>]}
    /\ log = <<>>
    /\ runs = <<>>
    /\ procs = <<>>
    /\ arg = <<>>
    /\ ret = <<>>

NextReconcile == Reconcile

SpecReconcile == InitReconcile /\ [][NextReconcile]_vars

(***************************************************************************)
(* Observations of the catalog.                                            *)
(***************************************************************************)
Succeeded(i) == log[i].raised = "none"

\* Successful reconciliations of identifier X so far.
SuccessesOf(X) == {i \in 1..Len(log) : Succeeded(i) /\ log[i].top_result_id = X}

\* Rows of the persisted catalog whose id is X.
RowsOf(X) == {i \in 1..Len(file.rows) : file.rows[i]["id"] = X}

LastSucceeded == log # <<>> /\ Succeeded(Len(log))

\* The price of the card record is absent (null or missing) or not a number.
PriceUnavailable(card_data) ==
    /\ {"id", "name"} \subseteq DOMAIN card_data
    /\ ~PyFloatOk(UsdOf(card_data))

(***************************************************************************)
(* Claims about add_card_data_to_csv, checked under SpecReconcile.         *)
(***************************************************************************)

\* C4: after every successful reconciliation, also a re-sighting at a
\* different unit price, the persisted row of the reconciled identifier has
\* total_value = number_owned * price, price being the row's price field.
C4_TotalIsOwnedTimesStoredPrice ==
    LastSucceeded =>
        \A i \in RowsOf(Last(log).top_result_id) :
            PyFloat(file.rows[i]["total_value"])
                = PyInt(file.rows[i]["number_owned"]) * PyFloat(file.rows[i]["price"])

\* C5: when the reconciliation found an existing row of the identifier, the
\* row's price field afterwards is the unit price observed in this call.
C5_PriceRefreshed ==
    (LastSucceeded /\ Cardinality(SuccessesOf(Last(log).top_result_id)) >= 2) =>
        \A i \in RowsOf(Last(log).top_result_id) :
            file.rows[i]["price"] = UsdOf(Last(log).card_data)

\* C6: starting from an empty or absent catalog, the catalog holds exactly
\* one row per distinct identifier successfully reconciled: no two rows share
\* an identifier and a repeated identifier adds no row.
C6_OneRowPerIdentifier ==
    /\ \A X \in CardIds : Cardinality(RowsOf(X)) = (IF SuccessesOf(X) # {} THEN 1 ELSE 0)
    /\ Len(file.rows) = Cardinality({X \in CardIds : SuccessesOf(X) # {}})

\* Two identifiers were reconciled, one of them more than once.
C6_Witness ==
    /\ SuccessesOf(CardA) # {}
    /\ SuccessesOf(CardB) # {}
    /\ \E X \in CardIds : Cardinality(SuccessesOf(X)) >= 2
    /\ Len(file.rows) = 2

\* C7: k >= 1 successful reconciliations of X, all at the same price p,
\* starting without a row of X, leave X's row with number_owned = k and
\* total_value = k * p.
C7_RepeatedAtConstantPrice ==
    \A X \in CardIds : \A p \in NumericPrices :
        LET k == Cardinality(SuccessesOf(X)) IN
            (k >= 1 /\ \A i \in SuccessesOf(X) : UsdOf(log[i].card_data) = p) =>
                /\ RowsOf(X) # {}
                /\ \A r \in RowsOf(X) :
                      /\ file.rows[r]["number_owned"] = PyStrInt(k)
                      /\ PyInt(file.rows[r]["number_owned"]) = k
                      /\ PyFloat(file.rows[r]["total_value"]) = k * PyFloat(p)

\* The same identifier was reconciled three times at 14.25, another one in
\* between.
C7_Witness ==
    /\ Cardinality(SuccessesOf(CardA)) = 3
    /\ \A i \in SuccessesOf(CardA) : UsdOf(log[i].card_data) = Price1
    /\ SuccessesOf(CardB) # {}
    /\ \E r \in RowsOf(CardA) : PyFloat(file.rows[r]["total_value"]) = 4275

C9_NotFoundRejected ==
    [][Last(log').card_data = NotFoundResponse =>
          /\ Last(log').raised # "none"
          /\ file' = file]_vars

\* A not-found answer was rejected while the catalog held a row.
C9_Witness ==
    /\ \E j \in 1..Len(log) :
          /\ log[j].card_data = NotFoundResponse
          /\ log[j].raised = "KeyError"
          /\ \E i \in 1..(j - 1) : Succeeded(i)
    /\ Len(file.rows) >= 1

(***************************************************************************)
(* IEEE-754 double arithmetic of resize_with_padding (l.68-70), on small   *)
(* positive integers.  scale = fl(S / m) is the double nearest to S/m and  *)
(* int(x * scale) truncates the double nearest to x * scale.  When x*S/m   *)
(* is not an integer its distance to an integer (>= 1/m) exceeds every     *)
(* rounding error, so the truncation is the exact floor; when it is an     *)
(* integer k the result is k - 1 if the rounded product falls below k.     *)
(***************************************************************************)
RECURSIVE Pow2(_)
Pow2(n) == IF n = 0 THEN 1 ELSE 2 * Pow2(n - 1)

\* 2^t mod m
RECURSIVE PowMod2(_, _)
PowMod2(t, m) == IF t = 0 THEN 1 % m ELSE (2 * PowMod2(t - 1, m)) % m

\* the largest e with 2^e <= k, for k >= 1
RECURSIVE FloorLog2(_)
FloorLog2(k) == IF k < 2 THEN 0 ELSE 1 + FloorLog2(k \div 2)

\* the exponent a of the double S/m: 2^a <= S/m < 2^(a+1)
RECURSIVE NegExponent(_, _)
NegExponent(S, m) == IF S >= m THEN 0 ELSE 1 + NegExponent(2 * S, m)

QuotientExponent(S, m) == IF S >= m THEN FloorLog2(S \div m) ELSE 0 - NegExponent(S, m)

\* S/m - fl(S/m), in units of 1/(m * 2^(52 - a)): the remainder r of S * 2^(52-a)
\* by m when the 53-bit quotient is rounded down (2r < m), r - m when it is
\* rounded up, 0 when S/m is a double.
QuotientRemainder(S, m) ==
    LET r == ((S % m) * PowMod2(52 - QuotientExponent(S, m), m)) % m
    IN  IF 2 * r > m THEN r - m ELSE r

\* int(x * fl(S/m))
IntOfProduct(x, S, m) ==
    IF (x * S) % m # 0 THEN (x * S) \div m
    ELSE LET k == (x * S) \div m
             r == QuotientRemainder(S, m)
             a == QuotientExponent(S, m)
             e == FloorLog2(k)
             \* half the spacing of the doubles below k is 2^(e-53), or
             \* 2^(e-54) when k is a power of two; the product is
             \* k - x*r / (m * 2^(52-a))
             sh == IF k = Pow2(e) THEN a + 2 ELSE a + 1
             lhs == IF sh >= 0 THEN x * r * Pow2(sh) ELSE x * r
             rhs == IF sh >= 0 THEN m * Pow2(e) ELSE m * Pow2(e) * Pow2(0 - sh)
         IN  IF r > 0 /\ lhs > rhs THEN k - 1 ELSE k

(***************************************************************************)
(* resize_with_padding (l.66-76).                                          *)
(***************************************************************************)
\* l.72: np.full((target_size, target_size, 3), 255)
PadPixel == <<255, 255, 255>>

\* A pixel of the resized image; the source image is taken black so that
\* content differs from padding.
ContentPixel == <<0, 0, 0>>

\* l.68: min(target_size / h, target_size / w), as the pair <<S, m>> of the
\* quotient that is the smaller one (S/h <= S/w iff w <= h).
ScaleOf_max(S, h, w) == IF w <= h THEN <<S, w>> ELSE <<S, h>>

ScaleOf_inverted(S, h, w) == IF w <= h THEN <<w, S>> ELSE <<h, S>>

ScaleOf(S, h, w) == IF w <= h THEN <<S, h>> ELSE <<S, w>>

\* The whole function on an image of shape (h, w, 3).  cv2.resize (l.71)
\* raises for an empty dsize; the slice assignment (l.75) raises when the
\* slice is not new_h x new_w.
resize_with_padding(img, target_size) ==
    LET S == target_size
        scale == ScaleOf(S, img.h, img.w)
        new_w == IntOfProduct(img.w, scale[1], scale[2])
        new_h == IntOfProduct(img.h, scale[1], scale[2])
        pad_w == (S - new_w) \div 2
        pad_h == (S - new_h) \div 2
        raised == IF new_w = 0 \/ new_h = 0 THEN "cv2.error"
                  ELSE IF new_w > S \/ new_h > S THEN "ValueError"
                  ELSE "none"
    IN  [raised |-> raised, scale |-> scale,
         new_w |-> new_w, new_h |-> new_h, pad_w |-> pad_w, pad_h |-> pad_h,
         padded_img |->
            IF raised # "none" THEN <<>>
            ELSE [rc \in (0..(S - 1)) \X (0..(S - 1)) |->
                     IF /\ pad_h <= rc[1] /\ rc[1] < pad_h + new_h
                        /\ pad_w <= rc[2] /\ rc[2] < pad_w + new_w
                     THEN ContentPixel ELSE PadPixel]]

\* The value of ret before the call.
NotCalled == [raised |-> "pending"]

\* The variables of the other functions, at rest.
IngestIdle ==
    /\ entries = <<>>
    /\ batch_size = 1
    /\ pos = 1
    /\ batch = <<>>
    /\ calls = <<>>
    /\ errors = <<>>
    /\ pc = "done"
    /\ runs = <<>>

LedgerIdle ==
    /\ file = [exists |-> FALSE, rows |-> <<>>]
    /\ log = <<>>
    /\ procs = <<>>

InitResize ==
    /\ IngestIdle
    /\ LedgerIdle
    /\ arg \in [h : 1..MaxSide, w : 1..MaxSide, target_size : 1..MaxTarget]
    /\ ret = NotCalled

\* One call resize_with_padding(img, target_size).
Resize ==
    /\ ret.raised = "pending"
    /\ ret' = resize_with_padding([h |-> arg.h, w |-> arg.w], arg.target_size)
    /\ UNCHANGED <<ingestVars, ledgerVars, runs, procs, arg>>

NextResize == Resize

SpecResize == InitResize /\ [][NextResize]_vars

(***************************************************************************)
(* Claims about resize_with_padding, checked under SpecResize.             *)
(***************************************************************************)
Resized == ret.raised # "pending"

\* Pixels of the canvas inside the bounding box of the resized content.
InBox(r, c) ==
    /\ ret.pad_h <= r /\ r < ret.pad_h + ret.new_h
    /\ ret.pad_w <= c /\ c < ret.pad_w + ret.new_w

\* C11: for every image with H >= 1, W >= 1 and every S >= 1 the function
\* returns a canvas of exactly S x S x 3 whose pixels outside the content's
\* bounding box are 255 in every channel; new_w and new_h are at least 1, so
\* the resize step is defined.
C11_CanvasForEveryImage ==
    Resized =>
        /\ ret.new_w >= 1
        /\ ret.new_h >= 1
        /\ ret.raised = "none"
        /\ DOMAIN ret.padded_img = (0..(arg.target_size - 1)) \X (0..(arg.target_size - 1))
        /\ \A rc \in DOMAIN ret.padded_img :
              ~InBox(rc[1], rc[2]) => ret.padded_img[rc] = <<255, 255, 255>>

\* C17: the content is never cropped and is centred: new_w <= S, new_h <= S,
\* the offsets are floor((S - new)/2) with pad + new <= S, the margins before
\* and after the content differ by at most 1 on each axis, and the content
\* occupies exactly the box at (pad_h, pad_w).
C17_CenteredNotCropped ==
    Resized =>
        LET S == arg.target_size IN
        /\ ret.new_w <= S /\ ret.new_h <= S
        /\ ret.pad_w >= 0 /\ ret.pad_h >= 0
        /\ ret.pad_w + ret.new_w <= S /\ ret.pad_h + ret.new_h <= S
        /\ (S - ret.new_w - ret.pad_w) - ret.pad_w \in {0, 1}
        /\ (S - ret.new_h - ret.pad_h) - ret.pad_h \in {0, 1}
        /\ (ret.raised = "none" =>
               \A rc \in DOMAIN ret.padded_img :
                   InBox(rc[1], rc[2]) <=> ret.padded_img[rc] = ContentPixel)

\* A wide image was placed with unequal margins above and below.
C17_Witness ==
    /\ Resized
    /\ ret.raised = "none"
    /\ ret.new_w = arg.target_size
    /\ ret.new_h < arg.target_size
    /\ ret.pad_h >= 1
    /\ (arg.target_size - ret.new_h - ret.pad_h) - ret.pad_h = 1

RECURSIVE SentIds(_)
SentIds(cs) ==
    IF cs = <<>> THEN <<>>
    ELSE SentIds(SubSeq(cs, 1, Len(cs) - 1))
         \o [k \in 1..Len(Last(cs).vectors) |-> Last(cs).vectors[k].id]

\* C12: batches are flushed in enumeration order: when the run has ended, the
\* item lists of all upsert calls, concatenated in call order, are the
\* successfully embedded entries in listing order.
C12_FlushedInListingOrder ==
    Terminated => SentIds(calls) = Embedded

\* The run is aborted between two iterations (the KeyboardInterrupt of l.219 is
\* not an Exception, so the except clause of l.105 does not catch it).
Interrupt ==
    /\ pc = "loop"
    /\ pc' = "interrupted"
    /\ UNCHANGED <<entries, batch_size, pos, batch, calls, errors>>
    /\ UNCHANGED <<ledgerVars, runs, procs, callVars>>

NextIngestAbort ==
    \/ NextIngest
    \/ Interrupt

SpecIngestAbort == InitIngest /\ [][NextIngestAbort]_vars

\* Ids stored by the index: those carried by a successful upsert call.
DeliveredIds ==
    UNION {{calls[i].vectors[k].id : k \in 1..Len(calls[i].vectors)} :
              i \in {j \in 1..Len(calls) : calls[j].ok}}

BatchIds == {batch[k].id : k \in 1..Len(batch)}

\* C13: when the run is aborted between entries, the index holds exactly the
\* flushed batches, the embedded items that are lost are exactly those of the
\* unflushed buffer, which holds fewer than batch_size items, and no flushed
\* item is lost or sent again.
C13_AbortLosesOnlyBuffer ==
    pc = "interrupted" =>
        /\ Range(Embedded) = DeliveredIds \cup BatchIds
        /\ DeliveredIds \cap BatchIds = {}
        /\ Len(batch) < batch_size
        /\ \A n \in DeliveredIds : Cardinality(CallsWith(n)) = 1

(***************************************************************************)
(* get_card_id (l.349-350).                                                *)
(***************************************************************************)
\* File names of the index records: a stem of letters and dots, a dot and an
\* extension without dot.
StemChars == {"a", "b", "."}

Stems == UNION {[1..n -> StemChars] : n \in 1..MaxStem}

Extensions == {<<"j", "p", "g">>, <<"p", "n", "g">>}

FileNames == {stem \o <<".">> \o ext : stem \in Stems, ext \in Extensions}

\* s.split('.')[0]: the characters before the first '.', all of s without one
SplitFirst(s) ==
    IF DotPositions(s) = {} THEN s
    ELSE SubSeq(s, 1, (CHOOSE i \in DotPositions(s) : \A j \in DotPositions(s) : i <= j) - 1)

\* l.350: query_results.matches[0].id.split('.')[0]
get_card_id(query_results) == SplitFirst(query_results.matches[1].id)

InitCardId ==
    /\ IngestIdle
    /\ LedgerIdle
    /\ arg \in {[matches |-> <<[id |-> f]>>] : f \in FileNames}
    /\ ret = NotCalled

\* One call get_card_id(query_results).
GetCardId ==
    /\ ret.raised = "pending"
    /\ ret' = [raised |-> "none", value |-> get_card_id(arg)]
    /\ UNCHANGED <<ingestVars, ledgerVars, runs, procs, arg>>

NextCardId == GetCardId

SpecCardId == InitCardId /\ [][NextCardId]_vars

\* The file name without its extension: the characters before the last '.'.
StemOf(f) == SubSeq(f, 1, (CHOOSE i \in DotPositions(f) : \A j \in DotPositions(f) : j <= i) - 1)

\* C14: for every file name stem + '.' + ext, also when the stem contains
\* '.', get_card_id returns the stem: the extension is removed and nothing
\* else.
C14_CardIdIsStem ==
    ret.raised = "none" => ret.value = StemOf(arg.matches[1].id)

(***************************************************************************)
(* Concurrent callers of add_card_data_to_csv on the same file.  A call     *)
(* reads the file (l.410-415), then fetches, merges and rewrites the file   *)
(* (l.417-469); nothing in the function excludes another caller in between. *)
(* procs.exclusive tells whether the deployment serialises the calls.       *)
(***************************************************************************)
Procs == {1, 2}

InitConcurrent ==
    /\ IngestIdle
    /\ file = [exists |-> FALSE, rows |-> <<>>]
    /\ log = <<>>
    /\ \E x \in BOOLEAN :
          procs = [exclusive |-> x, locals |-> [p \in Procs |-> [pc |-> "idle", rows |-> <<>>]]]
    /\ arg = <<>>
    /\ ret = <<>>

InFlight == {p \in Procs : procs.locals[p].pc = "read"}

\* l.410-415: caller p reads the file into its local `rows`.
ReadFile(p) ==
    /\ procs.locals[p].pc = "idle"
    /\ Len(log) + Cardinality(InFlight) < MaxConcurrentCalls
    /\ procs.exclusive => InFlight = {}
    /\ procs' = [procs EXCEPT !.locals[p] = [pc |-> "read", rows |-> DictReader(file)]]
    /\ UNCHANGED <<ingestVars, file, log, runs, callVars>>

\* l.417-469: caller p fetches the card, merges it into its local rows and
\* rewrites the file from them.
MergeAndWrite(p) ==
    /\ procs.locals[p].pc = "read"
    /\ \E top_result_id \in CardIds :
          \E card_data \in get_card_details(top_result_id) :
              LET ex == Extract(card_data)
                  m == IF ex.raised # "none"
                       THEN [raised |-> ex.raised, rows |-> procs.locals[p].rows]
                       ELSE Merge(procs.locals[p].rows, ex)
              IN  /\ file' = WriteBack(file, m.rows, m.raised)
                  /\ log' = Append(log, [top_result_id |-> top_result_id,
                                         card_data |-> card_data,
                                         raised |-> m.raised])
    /\ procs' = [procs EXCEPT !.locals[p] = [pc |-> "idle", rows |-> <<>>]]
    /\ UNCHANGED <<ingestVars, runs, callVars>>

NextConcurrent ==
    \/ \E p \in Procs : ReadFile(p)
    \/ \E p \in Procs : MergeAndWrite(p)

SpecConcurrent == InitConcurrent /\ [][NextConcurrent]_vars

\* Copies recorded by the persisted catalog.
RECURSIVE OwnedIn(_)
OwnedIn(rows) ==
    IF rows = <<>> THEN 0
    ELSE OwnedIn(SubSeq(rows, 1, Len(rows) - 1)) + PyInt(Last(rows)["number_owned"])

NumSucceeded == Cardinality({i \in 1..Len(log) : Succeeded(i)})

\* C15: when the calls are serialised, the catalog always records as many
\* owned copies as reconciliations returned successfully, and one row per
\* identifier reconciled; without mutual exclusion a state with fewer copies
\* or rows is reachable (C15_LostUpdate).
C15_SerialisedLosesNothing ==
    procs.exclusive =>
        /\ OwnedIn(file.rows) = NumSucceeded
        /\ Len(file.rows) = Cardinality({X \in CardIds : SuccessesOf(X) # {}})

\* Two calls interleaved without mutual exclusion, both returned, and the
\* catalog records fewer copies than the calls that succeeded.
C15_LostUpdate ==
    /\ ~procs.exclusive
    /\ InFlight = {}
    /\ NumSucceeded >= 2
    /\ \/ OwnedIn(file.rows) < NumSucceeded
       \/ Len(file.rows) < Cardinality({X \in CardIds : SuccessesOf(X) # {}})

(***************************************************************************)
(* What batch_upsert_embeddings reports.                                   *)
(***************************************************************************)
\* l.91-111: the function has no return statement; its value is None.
ReturnValue == NoneVal

\* l.106: the entries named by the printed "Error processing image" lines.
PrintedFailures == {e.name : e \in Range(errors)}

\* C16: the run returns a report whose counts are consistent: embedded +
\* failed = entries enumerated, upserted = embedded, and the failure list
\* names exactly the entries whose normalize or embed step failed.
C16_ReportConsistent ==
    pc = "done" =>
        /\ ReturnValue # NoneVal
        /\ Len(Embedded) + Cardinality(EmbedFailed) = Len(entries)
        /\ Cardinality(DeliveredIds) = Len(Embedded)
        /\ PrintedFailures = EmbedFailed

(***************************************************************************)
(* The row created at the first sighting of a card (l.443-461).            *)
(***************************************************************************)
\* The last call succeeded and is the first success for its identifier: the
\* scan of l.436-442 found no row, so l.443-461 appended one.
FirstSighting ==
    /\ LastSucceeded
    /\ SuccessesOf(Last(log).top_result_id) = {Len(log)}

\* Identifiers reconciled successfully so far.
SightedIds == {log[i].top_result_id : i \in {n \in 1..Len(log) : Succeeded(n)}}

\* Keys of the card object whose JSON value is a string.
StringKeys == {"name", "mana_cost", "type_line", "set_name", "rarity"}

\* The text of the card object's value for key k; for a missing key, the
\* text of the default of its .get (l.422-429).
RecordText(card, k) ==
    IF k \in DOMAIN card
    THEN IF k \in StringKeys THEN card[k] ELSE PyStr(card[k])
    ELSE CASE k = "cmc" -> <<"0">>
           [] k \in {"colors", "color_identity"} -> <<"[", "]">>
           [] k = "full_art" -> <<"F", "a", "l", "s", "e">>
           [] OTHER -> EmptyStr

Hyphenated(s) == [i \in 1..Len(s) |-> IF s[i] = EmDash THEN "-" ELSE s[i]]

\* What every first sighting must satisfy besides the descriptive columns:
\* exactly one row was appended, at the end, with number_owned 1 and
\* total_value equal to the unit price.
AppendedUnitRow ==
    LET card == Last(log).card_data
        row == Last(file.rows)
    IN  /\ Len(file.rows) = Cardinality(SightedIds)
        /\ RowsOf(card.id) = {Len(file.rows)}
        /\ PyInt(row["number_owned"]) = 1
        /\ row["price"] = card.prices.usd
        /\ PyFloat(row["total_value"]) = PyFloat(card.prices.usd)

\* C19 as stated: a successful reconciliation of an identifier with no row
\* appends exactly one row with number_owned = 1, total_value = the unit
\* price, and every descriptive field the card object has (name, mana_cost,
\* cmc, type_line, colors, color_identity, set_name, rarity, full_art, price)
\* copied unchanged from the card object.
C19_NewRowCopiesRecord ==
    FirstSighting =>
        /\ AppendedUnitRow
        /\ \A k \in Descriptive \cap DOMAIN Last(log).card_data :
              Last(file.rows)[k] = RecordText(Last(log).card_data, k)

\* C19 amended: the same, except that type_line is stored with every em dash
\* replaced by a hyphen, and a key the card object lacks is stored as the
\* default of its lookup.
C19_NewRowFromRecord ==
    FirstSighting =>
        /\ AppendedUnitRow
        /\ \A k \in Descriptive :
              Last(file.rows)[k] =
                  IF k = "type_line"
                  THEN Hyphenated(RecordText(Last(log).card_data, k))
                  ELSE RecordText(Last(log).card_data, k)

\* A first sighting of the two-faced card, appended after another card's row;
\* its type_line has two em dashes and three of its keys are missing.
C19_Witness ==
    /\ FirstSighting
    /\ Last(log).top_result_id = CardB
    /\ Len(file.rows) = 2
    /\ Last(file.rows)["type_line"] = <<"C", "-", "H", "/", "C", "-", "W">>
    /\ Last(file.rows)["color_identity"] = <<"[", "'", "G", "'", ",", " ", "'", "R", "'", "]">>
    /\ Last(file.rows)["cmc"] = <<"0">>

(***************************************************************************)
(* The index, and a directory that is ingested again.                      *)
(***************************************************************************)
\* The namespace argument (l.91), the same in every run (l.243).
Namespace == "cards"

\* index.upsert(vectors, namespace) on the index as a map from
\* <<namespace, id>> to values: a record with the same key is overwritten.
Upsert(index, vectors, namespace) ==
    LET new == {<<namespace, vectors[k].id>> : k \in 1..Len(vectors)}
        last(key) == CHOOSE k \in 1..Len(vectors) :
                        /\ vectors[k].id = key[2]
                        /\ \A j \in (k + 1)..Len(vectors) : vectors[j].id # key[2]
    IN  [key \in DOMAIN index \cup new |->
            IF key \in new THEN vectors[last(key)].values ELSE index[key]]

\* The index after the upsert calls cs, in call order; a call that raised
\* stored nothing.
RECURSIVE ApplyCalls(_, _)
ApplyCalls(index, cs) ==
    IF cs = <<>> THEN index
    ELSE ApplyCalls(IF Head(cs).ok THEN Upsert(index, Head(cs).vectors, Namespace)
                    ELSE index,
                    Tail(cs))

\* The index now: what the earlier runs left, then the calls of this run.
Index == ApplyCalls(IF runs = <<>> THEN <<>> ELSE Last(runs).index, calls)

\* After the call returned, the function is called again on the same directory
\* (l.243 run again), with any batch size; l.92 starts from an empty batch.
RunAgain ==
    /\ pc = "done"
    /\ Len(runs) + 1 < MaxRuns
    /\ runs' = Append(runs, [batch_size |-> batch_size, failed |-> EmbedFailed,
                             index |-> Index])
    /\ batch_size' \in 1..MaxBatchSize
    /\ pos' = 1
    /\ batch' = <<>>
    /\ calls' = <<>>
    /\ errors' = <<>>
    /\ pc' = "loop"
    /\ UNCHANGED entries
    /\ UNCHANGED <<ledgerVars, procs, callVars>>

InitReingest ==
    /\ \E n \in 0..MaxReingestEntries : entries = [i \in 1..n |-> i]
    /\ batch_size \in 1..MaxBatchSize
    /\ pos = 1
    /\ batch = <<>>
    /\ calls = <<>>
    /\ errors = <<>>
    /\ pc = "loop"
    /\ LedgerIdle
    /\ runs = <<>>
    /\ arg = <<>>
    /\ ret = <<>>

NextReingest ==
    \/ EmbedFails
    \/ EmbedAppends
    \/ EmbedFlushes
    \/ FinalUpsert
    \/ ReturnNoFinal
    \/ RunAgain

SpecReingest == InitReingest /\ [][NextReingest]_vars

\* This run returned, as every run before it did, and the same files failed
\* to embed in all of them (the embedding is deterministic).
Reingested ==
    /\ runs # <<>>
    /\ pc = "done"
    /\ \A i \in 1..Len(runs) : runs[i].failed = EmbedFailed

\* C20: ingesting the same directory again overwrites by identifier and makes
\* no duplicate: after the second run the index holds exactly the records it
\* held after the first, one per file name that embeds, keyed by
\* <<namespace, file name>>, whatever the batch size of either run.
C20_ReingestIdempotent ==
    Reingested =>
        /\ Index = Last(runs).index
        /\ DOMAIN Index = {<<Namespace, n>> : n \in Range(entries) \ EmbedFailed}
        /\ Cardinality(DOMAIN Index) = Len(Embedded)

\* Two files ingested with batch size 1 (one call each) and again with batch
\* size 2 (one call for both), leaving two records.
C20_Witness ==
    /\ Reingested
    /\ Len(entries) = 2
    /\ EmbedFailed = {}
    /\ Last(runs).batch_size = 1
    /\ batch_size = 2
    /\ Len(calls) = 1
    /\ Cardinality(DOMAIN Index) = 2

(***************************************************************************)
(* What a successful reconciliation leaves alone (l.435-469).              *)
(***************************************************************************)
\* The step appended one row for X after the rows that were there.
AppendedFor(X, before, after) ==
    /\ Len(after) = Len(before) + 1
    /\ Last(after)["id"] = X
    /\ \A i \in 1..Len(before) : after[i] = before[i]

\* The step changed, in place, rows of X only.
ModifiedFor(X, before, after) ==
    /\ Len(after) = Len(before)
    /\ \E i \in 1..Len(before) : before[i]["id"] = X /\ after[i] # before[i]
    /\ \A i \in 1..Len(before) : after[i]["id"] = before[i]["id"]

\* C21: a successful reconciliation of identifier X deletes no row and leaves
\* every row whose identifier differs from X as it was, field by field and at
\* its place among the others; either rows of X alone are modified, or one row
\* for X is appended at the end.
C21_OtherRowsUntouched ==
    [][Last(log').raised = "none" =>
          LET X == Last(log').top_result_id IN
              /\ Len(file'.rows) >= Len(file.rows)
              /\ \A i \in 1..Len(file.rows) :
                    file.rows[i]["id"] # X => file'.rows[i] = file.rows[i]
              /\ \/ AppendedFor(X, file.rows, file'.rows)
                 \/ ModifiedFor(X, file.rows, file'.rows)]_vars

\* CardA was reconciled, then CardB (a row appended after CardA's), then CardA
\* again (its row updated in place, before CardB's untouched row).
C21_Witness ==
    /\ LastSucceeded
    /\ Last(log).top_result_id = CardA
    /\ Cardinality(SuccessesOf(CardA)) = 2
    /\ Cardinality(SuccessesOf(CardB)) = 1
    /\ \E b \in SuccessesOf(CardB) : \E a \in SuccessesOf(CardA) : a < b
    /\ Len(file.rows) = 2
    /\ file.rows[1]["id"] = CardA
    /\ PyInt(file.rows[1]["number_owned"]) = 2
    /\ file.rows[2]["id"] = CardB
    /\ PyInt(file.rows[2]["number_owned"]) = 1
====
